---- MODULE Spec2Model ----
(***************************************************************************)
(* Model of the Taylor-rule pipeline: event alignment of the survey        *)
(* series (src/src/processing.py), the dataset merger and the deviation    *)
(* calculator (processing.py), the lag and sample builder                  *)
(* (src/src/estimation.py) and the analyzer (src/src/analytics.py).        *)
(*                                                                         *)
(* A data frame is a record [columns, rows]: the sequence of its column    *)
(* names and the sequence of its rows, a row being a record over the       *)
(* columns (the survey tables of the event alignment are bare sequences of *)
(* rows).  A missing value (NaN) is the integer NaN, below every value of  *)
(* the data.  A timestamp is a day ordinal (day 0 = 1 January of year 0,   *)
(* years of 365 days); a monthly period is a record [y, m].  Numbers are   *)
(* fixed point, in units of 1/120 (5.0 is 600), so that the twelfths of    *)
(* the deviation formula are exact on values that are multiples of 0.1.    *)
(***************************************************************************)
EXTENDS Integers, Sequences, FiniteSets, TLC

VARIABLES
    pc,            \* the stage the run has reached
    atas_data,     \* the meeting dates (fetch_atas)
    df_expected,   \* the raw survey table (FocusLoader)
    filtered_df,   \* the event-aligned survey rows
    dfs,           \* the list Pipeline.run hands to merge_datasets
    df_merged,     \* the Panel merge_datasets returns
    df_final,      \* the Panel calculate_deviation_from_target returns
    config,        \* config['estimation']: lag and year_ranges
    estimator,     \* run_estimation: the estimator of every combination
    results,       \* run_estimation: the fitted results of every combination
    analysis_summaries,  \* run_analysis: the report of every combination
    error,         \* the exception that ended the run, if any
    invocation,    \* an operation called on its own: its name and arguments
    returned       \* what that call returned

vars == <<pc, atas_data, df_expected, filtered_df, dfs, df_merged, df_final,
          config, estimator, results, analysis_summaries, error, invocation, returned>>

runVars == <<dfs, df_merged, df_final>>

estVars == <<config, estimator, results, analysis_summaries, error>>

callVars == <<invocation, returned>>

NoCall == [op |-> "none"]

\* no operation has been called on its own
CallIdle ==
    /\ invocation = NoCall
    /\ returned = NoCall

NoConfig == [lag |-> 1, year_ranges |-> <<>>]

NoError == [type |-> "none"]

\* the variables of the estimation stage before it has run
EstimationIdle ==
    /\ config = NoConfig
    /\ estimator = <<>>
    /\ results = <<>>
    /\ analysis_summaries = <<>>
    /\ error = NoError

NaN == -100000

NoFrame == [columns |-> <<>>, rows |-> <<>>]

-----------------------------------------------------------------------------
(* Bounds of the model *)

MaxRows == 2        \* rows of a raw survey table
MaxDay == 12        \* day ordinals 1..MaxDay of the event-alignment runs
MaxYear == 2        \* years 0..MaxYear of the pipeline runs
MaxPanelRows == 2   \* rows of a Panel given to the deviation calculator alone
MaxEstRows == 3     \* rows of a Panel given to the estimation stage alone
MaxRawRows == 3     \* rows of a raw table given to a frequency normalizer alone
MaxQuarter == 2     \* quarters 0..MaxQuarter of the raw quarterly tables
MaxMonth == 2       \* months 1..MaxMonth of the raw daily tables
MaxShortRows == 2   \* rows of a raw annual table or exchange-rate table

-----------------------------------------------------------------------------
(* Generic helpers *)

RECURSIVE SeqsUpTo(_, _)
SeqsUpTo(S, n) ==
    IF n = 0 THEN {<<>>}
    ELSE LET shorter == SeqsUpTo(S, n - 1)
         IN shorter \cup {Append(s, x) : s \in {t \in shorter : Len(t) = n - 1}, x \in S}

Min(S) == CHOOSE x \in S : \A y \in S : x <= y

-----------------------------------------------------------------------------
(* processing.filter_expected_inflation_dates *)

SearchDays == 7

\* df_expected[df_expected['Date'].isin(dates)]
IsIn(df, dates) == SelectSeq(df, LAMBDA r : r.Date \in dates)

\* dates - pd.Timedelta(days=offset)
Minus(dates, offset) == {d - offset : d \in dates}

\* the loop of lines 23-27, without its break: every offset overwrites the result
RECURSIVE FallbackLoopNoBreak(_, _, _, _)
FallbackLoopNoBreak(dates, df, filtered, offset) ==
    IF offset > SearchDays THEN filtered
    ELSE FallbackLoopNoBreak(dates, df, IsIn(df, Minus(dates, offset)), offset + 1)

\* for offset in range(1, 8): if len(filtered_df) > 0: break; else refilter
RECURSIVE FallbackLoop(_, _, _, _)
FallbackLoop(dates, df, filtered, offset) ==
    IF offset > SearchDays THEN filtered
    ELSE IF Len(filtered) > 0 THEN filtered
    ELSE FallbackLoop(dates, df, IsIn(df, Minus(dates, offset)), offset + 1)

filter_expected_inflation_dates(atas, df) ==
    FallbackLoop(atas, df, IsIn(df, Minus(atas, 1)), 1)

-----------------------------------------------------------------------------
(* Specification of the event alignment alone: the inputs are drawn in     *)
(* Init, the action applies the filter.                                    *)

MeetingDays == {MaxDay - 2, MaxDay}
SurveyVals == {1, 2}
SurveyRows == [Date : 1 .. (MaxDay - 1), focus_expected_inflation : SurveyVals]

InitFilter ==
    /\ pc = "start"
    /\ atas_data \in (SUBSET MeetingDays) \ {{}}
    /\ df_expected \in SeqsUpTo(SurveyRows, MaxRows)
    /\ filtered_df = <<>>
    /\ dfs = <<>>
    /\ df_merged = NoFrame
    /\ df_final = NoFrame
    /\ EstimationIdle
    /\ CallIdle

fetch_focus_expectations ==
    /\ pc = "start"
    /\ filtered_df' = filter_expected_inflation_dates(atas_data, df_expected)
    /\ pc' = "filtered"
    /\ UNCHANGED <<atas_data, df_expected, runVars, estVars, callVars>>

NextFilter == fetch_focus_expectations

SpecFilter == InitFilter /\ [][NextFilter]_vars

-----------------------------------------------------------------------------
(* Event alignment: claims *)

\* offsets 1..7 at which a survey row exists for meeting D
Offsets(D, df) == {k \in 1 .. SearchDays : \E i \in 1 .. Len(df) : df[i].Date = D - k}

RowsDated(df, d) == SelectSeq(df, LAMBDA r : r.Date = d)

\* C1: with several meetings the fallback offset is resolved per meeting:
\* for every meeting D the result contains the survey rows dated D-k for the
\* smallest k in 1..7 that has a survey row for D.
C1_PerMeetingOffset ==
    pc = "filtered" =>
        \A D \in atas_data :
            Offsets(D, df_expected) # {} =>
                LET d == D - Min(Offsets(D, df_expected))
                IN RowsDated(filtered_df, d) = RowsDated(df_expected, d)

\* C2: for a single meeting D the result is exactly the survey rows dated D-k,
\* k the smallest offset in 1..7 with a survey row; never a row older than D-7.
C2_SingleMeeting ==
    (pc = "filtered" /\ Cardinality(atas_data) = 1) =>
        LET D == CHOOSE x \in atas_data : TRUE
        IN IF Offsets(D, df_expected) = {} THEN filtered_df = <<>>
           ELSE filtered_df = RowsDated(df_expected, D - Min(Offsets(D, df_expected)))

\* a single meeting D with survey rows only at D-5 and D-9: the D-5 row is returned
C2_Witness ==
    /\ pc = "filtered"
    /\ atas_data = {MaxDay}
    /\ Len(df_expected) = 2
    /\ {df_expected[i].Date : i \in 1 .. 2} = {MaxDay - 5, MaxDay - 9}
    /\ Len(filtered_df) = 1
    /\ filtered_df[1].Date = MaxDay - 5

-----------------------------------------------------------------------------
(* Calendar: pandas timestamps and monthly periods *)

DaysInYear == 365
DaysBefore == <<0, 31, 59, 90, 120, 151, 181, 212, 243, 273, 304, 334>>

NaT == [y |-> NaN, m |-> NaN]

MonthOfDay(doy) ==
    CHOOSE m \in 1 .. 12 : DaysBefore[m] <= doy /\ (m = 12 \/ doy < DaysBefore[m + 1])

\* Series.dt.to_period('M') on one timestamp
to_period_M(d) ==
    IF d = NaN THEN NaT
    ELSE [y |-> d \div DaysInYear, m |-> MonthOfDay(d % DaysInYear)]

\* the timestamp of the first day of a month ('MS', '%m/%Y', '%b-%y')
MonthStart(per) == DaysInYear * per.y + DaysBefore[per.m]

\* the timestamp of the last day of a month ('ME')
MonthEnd(per) ==
    IF per.m = 12 THEN DaysInYear * (per.y + 1) - 1
    ELSE DaysInYear * per.y + DaysBefore[per.m + 1] - 1

PeriodLess(a, b) == a.y < b.y \/ (a.y = b.y /\ a.m < b.m)

-----------------------------------------------------------------------------
(* processing.merge_datasets *)

Range(s) == {s[i] : i \in DOMAIN s}

RECURSIVE Flatten(_)
Flatten(ss) == IF ss = <<>> THEN <<>> ELSE Head(ss) \o Flatten(Tail(ss))

ValueColumns(df) == SelectSeq(df.columns, LAMBDA c : c # "Date")

\* df['Date'] = df['Date'].dt.to_period('M')
DateToPeriod(df) ==
    [df EXCEPT !.rows = [i \in DOMAIN @ |-> [@[i] EXCEPT !.Date = to_period_M(@)]]]

\* pd.merge(left, right, on='Date', how='left'): every left row, in the order
\* of left, once per right row with the same key (in the order of right), or
\* once with missing values when right has no such row; a value column the two
\* frames share is kept twice, suffixed _x and _y
LeftJoin(left, right) ==
    LET lcols == Range(left.columns)
        rseq == ValueColumns(right)
        rcols == Range(rseq)
        overlap == (lcols \cap rcols) \ {"Date"}
        lname(c) == IF c \in overlap THEN c \o "_x" ELSE c
        rname(c) == IF c \in overlap THEN c \o "_y" ELSE c
        lrow(l) == [n \in {lname(c) : c \in lcols} |->
                        l[CHOOSE c \in lcols : lname(c) = n]]
        rrow(r) == [n \in {rname(c) : c \in rcols} |->
                        r[CHOOSE c \in rcols : rname(c) = n]]
        missing == [n \in {rname(c) : c \in rcols} |-> NaN]
        matches(l) == SelectSeq(right.rows, LAMBDA r : r.Date = l.Date)
        expand(l) ==
            IF matches(l) = <<>> THEN <<lrow(l) @@ missing>>
            ELSE [j \in 1 .. Len(matches(l)) |-> lrow(l) @@ rrow(matches(l)[j])]
    IN [columns |-> [i \in 1 .. Len(left.columns) |-> lname(left.columns[i])]
                     \o [i \in 1 .. Len(rseq) |-> rname(rseq[i])],
        rows |-> Flatten([i \in 1 .. Len(left.rows) |-> expand(left.rows[i])])]

\* functools.reduce(f, list) with the first element as the initial value
RECURSIVE Reduce(_, _)
Reduce(acc, rest) ==
    IF rest = <<>> THEN acc ELSE Reduce(LeftJoin(acc, Head(rest)), Tail(rest))

\* the list after the loop of lines 160-161, which rewrites each frame's Date
PeriodFrames(list) == [i \in DOMAIN list |-> DateToPeriod(list[i])]

merge_datasets(list) == Reduce(Head(PeriodFrames(list)), Tail(PeriodFrames(list)))

-----------------------------------------------------------------------------
(* processing.calculate_deviation_from_target *)

\* df.groupby('mes')['inflation_target'].shift(-1): the value of the next row
\* of the frame that has the same 'mes'; missing when there is none, and for a
\* row whose 'mes' is missing
GroupShiftNext(rows, i) ==
    LET later == {j \in (i + 1) .. Len(rows) : rows[j].Date.m = rows[i].Date.m}
    IN IF rows[i].Date.m = NaN \/ later = {} THEN NaN
       ELSE rows[Min(later)].inflation_target

\* the formula with the two weights exchanged
DeviationSwapped(mes, expected, target, target_next) ==
    IF NaN \in {mes, expected, target, target_next} THEN NaN
    ELSE (mes * (expected - target)) \div 12
         + ((12 - mes) * (expected - target_next)) \div 12

\* ((12-mes)/12) * (expected - target) + (mes/12) * (expected - target_next)
Deviation(mes, expected, target, target_next) ==
    IF NaN \in {mes, expected, target, target_next} THEN NaN
    ELSE ((12 - mes) * (expected - target)) \div 12
         + (mes * (expected - target_next)) \div 12

calculate_deviation_from_target(df) ==
    LET next(i) == GroupShiftNext(df.rows, i)
        row(i) ==
            LET r == df.rows[i]
            IN [ano |-> r.Date.y,
                     mes |-> r.Date.m,
                     inflation_target_next |-> next(i),
                     bcb_inflation_deviation |->
                         Deviation(r.Date.m, r.bcb_expected_inflation,
                                   r.inflation_target, next(i)),
                     focus_inflation_deviation |->
                         Deviation(r.Date.m, r.focus_expected_inflation,
                                   r.inflation_target, next(i))] @@ r
    IN [columns |-> df.columns \o <<"ano", "mes", "inflation_target_next",
                                    "bcb_inflation_deviation",
                                    "focus_inflation_deviation">>,
        rows |-> [i \in 1 .. Len(df.rows) |-> row(i)]]

-----------------------------------------------------------------------------
(* Specification of Pipeline.run: event alignment, the other six series,   *)
(* merge, deviation.  The survey is taken on 15 June of every year and on  *)
(* 1 June of year 0, the meetings are held the day after a survey day; the *)
(* other series are given on the months of the survey days.                *)

June(yy) == [y |-> yy, m |-> 6]
RunMonths == {June(yy) : yy \in 0 .. MaxYear}
SurveyDates == {MonthStart(p) + 14 : p \in RunMonths} \cup {MonthStart(June(0))}
MeetingDates == {d + 1 : d \in SurveyDates}
SurveyRowsRun == [Date : SurveyDates, focus_expected_inflation : {600}]

\* the value of series k in a month: (10 k + year).0
SeriesValue(k, per) == 12 * (10 * (10 * k + per.y))

RECURSIVE SortedPeriods(_)
SortedPeriods(S) ==
    IF S = {} THEN <<>>
    ELSE LET lo == CHOOSE a \in S : \A b \in S : a = b \/ PeriodLess(a, b)
         IN <<lo>> \o SortedPeriods(S \ {lo})

\* a resampled series: one row per month of S, ascending
SeriesFrame(k, col, S, rule) ==
    LET ps == SortedPeriods(S)
        Stamp(per) == IF rule = "ME" THEN MonthEnd(per) ELSE MonthStart(per)
    IN [columns |-> <<"Date", col>>,
        rows |-> [i \in 1 .. Len(ps) |->
                    ("Date" :> Stamp(ps[i]) @@ col :> SeriesValue(k, ps[i]))]]

\* the runs of consecutive months of RunMonths a resampled series can cover
Intervals ==
    {S \in SUBSET RunMonths :
        /\ S # {}
        /\ \A a \in S, b \in S, c \in RunMonths :
              (PeriodLess(a, c) /\ PeriodLess(c, b)) => c \in S}

\* hp_filter_output does not resample: its rows are the parsable rows of the
\* raw table, in the order of the raw table
GapRows == {("Date" :> MonthStart(p) @@ "output_gap" :> SeriesValue(5, p)) : p \in RunMonths}

GapFrames ==
    {[columns |-> <<"Date", "output_gap">>, rows |-> rs] : rs \in SeqsUpTo(GapRows, MaxRows)}

\* the output tables that list every month once, in ascending order
MonthlyGapFrames ==
    {f \in GapFrames : \A i \in 1 .. (Len(f.rows) - 1) : f.rows[i].Date < f.rows[i + 1].Date}

\* the survey tables that hold one survey a month, in ascending order
MonthlySurveys ==
    {t \in SeqsUpTo(SurveyRowsRun, MaxRows) :
        \A i \in 1 .. (Len(t) - 1) :
            PeriodLess(to_period_M(t[i].Date), to_period_M(t[i + 1].Date))}

InitRun ==
    /\ pc = "start"
    /\ atas_data \in (SUBSET MeetingDates) \ {{}}
    /\ df_expected \in SeqsUpTo(SurveyRowsRun, MaxRows)
    /\ filtered_df = <<>>
    /\ dfs = <<>>
    /\ df_merged = NoFrame
    /\ df_final = NoFrame
    /\ EstimationIdle
    /\ CallIdle

\* lines 238-243 of Pipeline.run: the six other fetches, and the list dfs
FetchSeries(gaps) ==
    /\ pc = "filtered"
    /\ \E gap \in gaps, cover \in Intervals :
          dfs' = << [columns |-> <<"Date", "focus_expected_inflation">>,
                     rows |-> filtered_df],
                    SeriesFrame(2, "bcb_expected_inflation", RunMonths, "MS"),
                    SeriesFrame(3, "selic_target", RunMonths, "ME"),
                    SeriesFrame(4, "exchange_rate_var", RunMonths, "ME"),
                    gap,
                    SeriesFrame(6, "inflation_target", cover, "MS"),
                    SeriesFrame(7, "inflation_12m", RunMonths, "MS") >>
    /\ pc' = "fetched"
    /\ UNCHANGED <<atas_data, df_expected, filtered_df, df_merged, df_final, estVars, callVars>>

fetch_series == FetchSeries(GapFrames)

fetch_monthly_series == FetchSeries(MonthlyGapFrames)

\* line 249 of Pipeline.run; the frames of the list are rewritten in place
merge ==
    /\ pc = "fetched"
    /\ df_merged' = merge_datasets(dfs)
    /\ dfs' = PeriodFrames(dfs)
    /\ pc' = "merged"
    /\ UNCHANGED <<atas_data, df_expected, filtered_df, df_final, estVars, callVars>>

\* line 254 of Pipeline.run
deviation ==
    /\ pc = "merged"
    /\ df_final' = calculate_deviation_from_target(df_merged)
    /\ pc' = "final"
    /\ UNCHANGED <<atas_data, df_expected, filtered_df, dfs, df_merged, estVars, callVars>>

NextRun ==
    \/ fetch_focus_expectations
    \/ fetch_series
    \/ merge
    \/ deviation

SpecRun == InitRun /\ [][NextRun]_vars

\* Pipeline.run on raw tables that list every month at most once: the survey
\* table may still be in any order and hold several surveys of a month
NextRunMonthly ==
    \/ fetch_focus_expectations
    \/ fetch_monthly_series
    \/ merge
    \/ deviation

SpecRunMonthly == InitRun /\ [][NextRunMonthly]_vars

\* Pipeline.run when the survey table too holds one survey a month, ascending
InitRunSorted ==
    /\ InitRun
    /\ df_expected \in MonthlySurveys

SpecRunSorted == InitRunSorted /\ [][NextRunMonthly]_vars

-----------------------------------------------------------------------------
(* Pipeline.run: claims *)

Keys(df) == [i \in 1 .. Len(df.rows) |-> df.rows[i].Date]

AnchorKeys == [i \in 1 .. Len(filtered_df) |-> to_period_M(filtered_df[i].Date)]

Ascending(keys) ==
    \A i \in 1 .. (Len(keys) - 1) : PeriodLess(keys[i], keys[i + 1])

\* C3: for every row of the Panel with month m and year y, inflation_target_next
\* is the inflation_target of month m of year y+1, and is missing when the Panel
\* has no row for that month of year y+1.
C3_TargetNextIsNextYear ==
    pc = "final" =>
        \A i \in 1 .. Len(df_final.rows) :
            LET r == df_final.rows[i]
                nextYear == {j \in 1 .. Len(df_final.rows) :
                                df_final.rows[j].Date = [y |-> r.Date.y + 1, m |-> r.Date.m]}
            IN IF nextYear = {} THEN r.inflation_target_next = NaN
               ELSE \A j \in nextYear :
                        r.inflation_target_next = df_final.rows[j].inflation_target

\* C5: the month keys of the merged Panel are the anchor's month keys, row for
\* row and in the same order (no row dropped, none added), and a month absent
\* from a later dataset yields missing values in that dataset's columns.
C5_MergeKeepsAnchorRows ==
    pc \in {"merged", "final"} =>
        /\ Keys(df_merged) = AnchorKeys
        /\ \A k \in 2 .. Len(dfs), i \in 1 .. Len(df_merged.rows) :
              (\A j \in 1 .. Len(dfs[k].rows) :
                    dfs[k].rows[j].Date # df_merged.rows[i].Date)
                 => \A c \in Range(ValueColumns(dfs[k])) : df_merged.rows[i][c] = NaN

\* C6: the Panel returned by merge_datasets and the Panel returned by
\* calculate_deviation_from_target have unique month keys in ascending order.
C6_PanelKeysUniqueAscending ==
    /\ pc \in {"merged", "final"} => Ascending(Keys(df_merged))
    /\ pc = "final" => Ascending(Keys(df_final))

-----------------------------------------------------------------------------
(* Specification of the deviation calculator alone: the merged Panel is    *)
(* drawn in Init (any months of two years, in any order; targets 4.0, 3.5  *)
(* or missing), the action is the deviation step of Pipeline.run.          *)

PanelMonths == [y : {0, 1}, m : 1 .. 12]

PanelRows ==
    [Date : PanelMonths,
     focus_expected_inflation : {600},
     bcb_expected_inflation : {540},
     inflation_target : {480, 420, NaN}]

InitDev ==
    /\ pc = "merged"
    /\ atas_data = {}
    /\ df_expected = <<>>
    /\ filtered_df = <<>>
    /\ dfs = <<>>
    /\ df_merged \in {[columns |-> <<"Date", "focus_expected_inflation",
                                      "bcb_expected_inflation", "inflation_target">>,
                       rows |-> rs] : rs \in SeqsUpTo(PanelRows, MaxPanelRows)}
    /\ df_final = NoFrame
    /\ EstimationIdle
    /\ CallIdle

NextDev == deviation

SpecDev == InitDev /\ [][NextDev]_vars

\* twelve times the deviation the formula gives, computed on the columns of a row
TwelveDeviations(mes, expected, target, target_next) ==
    12 * expected - (12 - mes) * target - mes * target_next

\* C4: for every Panel row with month m, each of the two deviation columns is
\* (12-m)/12 * (expected - target_now) + m/12 * (expected - target_next), each from
\* its own expectation column; m=6, expected=5.0, target_now=4.0, target_next=3.5
\* gives 1.25; the deviation is missing when target_next is missing.
C4_DeviationFormula ==
    pc = "final" =>
        /\ Len(df_final.rows) = Len(df_merged.rows)
        /\ \A i \in 1 .. Len(df_final.rows) :
              LET r == df_final.rows[i]
                  m == df_merged.rows[i].Date.m
                  t == df_merged.rows[i].inflation_target
                  tn == r.inflation_target_next
                  Holds(dev, e) ==
                      /\ tn = NaN => dev = NaN
                      /\ (tn # NaN /\ t # NaN /\ e # NaN) =>
                            /\ dev # NaN
                            /\ 12 * dev = TwelveDeviations(m, e, t, tn)
                      /\ (m = 6 /\ e = 600 /\ t = 480 /\ tn = 420) => dev = 150
              IN /\ Holds(r.bcb_inflation_deviation, df_merged.rows[i].bcb_expected_inflation)
                 /\ Holds(r.focus_inflation_deviation, df_merged.rows[i].focus_expected_inflation)

\* June of year 0 with target 4.0 followed by June of year 1 with target 3.5:
\* the survey-based deviation of the first row is 1.25, that of the last is missing
C4_Witness ==
    /\ pc = "final"
    /\ Len(df_final.rows) = 2
    /\ df_final.rows[1].ano = 0
    /\ df_final.rows[2].ano = 1
    /\ df_final.rows[1].mes = 6
    /\ df_final.rows[1].inflation_target = 480
    /\ df_final.rows[1].inflation_target_next = 420
    /\ df_final.rows[1].focus_inflation_deviation = 150
    /\ df_final.rows[1].bcb_inflation_deviation = 90
    /\ df_final.rows[2].inflation_target_next = NaN
    /\ df_final.rows[2].focus_inflation_deviation = NaN

-----------------------------------------------------------------------------
(* estimation.TaylorRuleEstimator *)

Sources == <<"market", "bc">>

\* the constructor with self.data = data: the estimator works on the table
\* it was given
NewEstimatorShared(panel, source, lag) ==
    [data |-> [i \in 1 .. Len(panel.rows) |-> [idx |-> i] @@ panel.rows[i]],
     source |-> source,
     lag |-> lag,
     copied |-> FALSE]

\* __init__: self.data = data.copy(); a row keeps its index label, which for
\* the Panel of the pipeline is its position
NewEstimator(panel, source, lag) ==
    [data |-> [i \in 1 .. Len(panel.rows) |-> [idx |-> i] @@ panel.rows[i]],
     source |-> source,
     lag |-> lag,
     copied |-> TRUE]

\* the table the caller holds once the estimator has worked: its own when
\* the estimator took a copy, the estimator's when it did not
PanelAfter(panel, est) ==
    IF est.copied THEN panel ELSE [panel EXCEPT !.rows = est.data]

\* _source_column, for the two sources run_estimation uses
SourceColumn(est) ==
    LET col == IF est.source = "market" THEN "focus_inflation_deviation"
               ELSE "bcb_inflation_deviation"
    IN [est EXCEPT !.data = [i \in DOMAIN @ |-> [inf_dev |-> @[i][col]] @@ @[i]]]

\* Series.shift(lag): the value lag positions earlier, missing at the edge
Shifted(rows, col, lag, i) ==
    IF (i - lag) \in 1 .. Len(rows) THEN rows[i - lag][col] ELSE NaN

\* DataFrame.dropna(subset=[the three lags, 'inf_dev'])
DropNa(rows) ==
    SelectSeq(rows, LAMBDA r : NaN \notin {r.output_gap_lag, r.exchange_rate_var_lag,
                                           r.selic_target_lag, r.inf_dev})

\* the variant of _apply_lag that deletes the incomplete rows before it shifts
ApplyLagAfterDrop(est) ==
    LET kept == SelectSeq(est.data,
                          LAMBDA r : NaN \notin {r.output_gap, r.exchange_rate_var,
                                                 r.selic_target, r.inf_dev})
        lagged == [i \in 1 .. Len(kept) |->
                      [output_gap_lag |-> Shifted(kept, "output_gap", est.lag, i),
                       exchange_rate_var_lag |->
                           Shifted(kept, "exchange_rate_var", est.lag, i),
                       selic_target_lag |-> Shifted(kept, "selic_target", est.lag, i)]
                      @@ kept[i]]
    IN [est EXCEPT !.data = DropNa(lagged)]

\* _apply_lag
ApplyLag(est) ==
    LET rows == est.data
        lagged == [i \in 1 .. Len(rows) |->
                      [output_gap_lag |-> Shifted(rows, "output_gap", est.lag, i),
                       exchange_rate_var_lag |->
                           Shifted(rows, "exchange_rate_var", est.lag, i),
                       selic_target_lag |-> Shifted(rows, "selic_target", est.lag, i)]
                      @@ rows[i]]
    IN [est EXCEPT !.data = DropNa(lagged)]

\* the year filter without its upper bound
YearFilterNoEnd(rows, year_range) ==
    SelectSeq(rows, LAMBDA r : /\ r.ano # NaN
                               /\ r.ano >= year_range[1])

\* the year filter with the end year excluded
YearFilterExclusive(rows, year_range) ==
    SelectSeq(rows, LAMBDA r : /\ r.ano # NaN
                               /\ r.ano >= year_range[1]
                               /\ r.ano < year_range[2])

\* self.data[(self.data['ano'] >= year_range[0]) & (self.data['ano'] <= year_range[1])]
YearFilter(rows, year_range) ==
    SelectSeq(rows, LAMBDA r : /\ r.ano # NaN
                               /\ r.ano >= year_range[1]
                               /\ r.ano <= year_range[2])

\* what an estimate_* call leaves: the estimator, and the frame given to the
\* three models or the exception raised
Estimate(est, frame) == [raised |-> FALSE, est |-> est, frame |-> frame]

Raise(est, type, year_range) ==
    [raised |-> TRUE, est |-> est, frame |-> <<>>,
     error |-> [type |-> type, year_range |-> year_range]]

estimate_naive(est0) ==
    LET est == ApplyLag(SourceColumn(est0))
    IN Estimate(est, est.data)

estimate_range(est0, year_range) ==
    LET est == ApplyLag(SourceColumn(est0))
        df_range == YearFilter(est.data, year_range)
    IN IF df_range = <<>> THEN Raise(est, "ValueError", year_range)
       ELSE Estimate(est, df_range)

\* a Period compared with the two ends of dummy_range, as an integer
DummyVar(date, dummy_range) ==
    IF ~PeriodLess(date, dummy_range[1]) /\ ~PeriodLess(dummy_range[2], date)
    THEN 1 ELSE 0

estimate_finer(est0, year_range, dummy_range) ==
    LET est == ApplyLag(SourceColumn(est0))
        df_range == YearFilter(est.data, year_range)
    IN IF df_range = <<>> THEN Raise(est, "ValueError", year_range)
       ELSE Estimate(est, [i \in 1 .. Len(df_range) |->
                              [dummy_var |-> DummyVar(df_range[i].Date, dummy_range)]
                              @@ df_range[i]])

\* fit_models: every model has selic_target on its left-hand side, and the
\* formula interface leaves out the rows in which a variable of the model is
\* missing; the fitted sample is what is kept of a result here
fit_models(call) ==
    IF call.raised THEN call
    ELSE [sample |-> SelectSeq(call.frame, LAMBDA r : r.selic_target # NaN)] @@ call

-----------------------------------------------------------------------------
(* Pipeline.estimate_taylor_rule and Pipeline.run_estimation *)

\* normalized_range of the combination run when year_ranges is empty
None == <<NaN, NaN>>

\* estimate_taylor_rule: a new estimator on the Panel, one estimate_* call on
\* it, the fit; an exception is re-raised as a PipelineError with its message
estimate_taylor_rule(data, source, year_range, dummy_range) ==
    LET est == NewEstimator(data, source, config.lag)
        call == IF year_range = None THEN fit_models(estimate_naive(est))
                ELSE IF dummy_range # <<>>
                     THEN fit_models(estimate_finer(est, year_range, dummy_range))
                     ELSE fit_models(estimate_range(est, year_range))
    IN IF call.raised
       THEN [call EXCEPT !.error = [type |-> "PipelineError", cause |-> @.type,
                                    year_range |-> @.year_range]]
       ELSE call

\* the combinations run_estimation goes through, in its order: every entry of
\* year_ranges (or the single entry None), with "market" and then with "bc"
Combinations ==
    LET ranges == IF config.year_ranges = <<>>
                  THEN << [range |-> None, dummy_range |-> <<>>] >>
                  ELSE [i \in 1 .. Len(config.year_ranges) |->
                          [range |-> <<config.year_ranges[i].start,
                                       config.year_ranges[i].end>>,
                           dummy_range |-> config.year_ranges[i].dummy_range]]
    IN [k \in 1 .. (2 * Len(ranges)) |->
          [source |-> Sources[2 - (k % 2)],
           range |-> ranges[(k + 1) \div 2].range,
           dummy_range |-> ranges[(k + 1) \div 2].dummy_range]]

\* one pass of the loop of run_estimation: the call of estimate_taylor_rule
\* on the object df_final, and that object as the call leaves it
Combination(panel, c) ==
    LET call == estimate_taylor_rule(panel, c.source, c.range, c.dummy_range)
    IN [panel |-> PanelAfter(panel, call.est)] @@ call

\* the loop of run_estimation from combination k on: every combination is
\* handed the object df_final as the one before left it, and the first
\* exception ends the loop
RECURSIVE EstimationLoop(_, _, _)
LoopFrom(combos, k, pass) ==
    <<pass>> \o (IF pass.raised THEN <<>> ELSE EstimationLoop(combos, k + 1, pass.panel))

EstimationLoop(combos, k, panel) ==
    IF k > Len(combos) THEN <<>>
    ELSE LoopFrom(combos, k, Combination(panel, combos[k]))

\* run_estimation(df_final): the loop over the combinations; the first
\* exception ends it, otherwise the two dictionaries hold, for every key
\* (source, normalized_range), what the last combination with that key left
run_estimation ==
    /\ pc = "final"
    /\ \E calls \in {EstimationLoop(Combinations, 1, df_final)} :
       LET combos == Combinations
           failed == {k \in 1 .. Len(calls) : calls[k].raised}
           keys == {<<combos[k].source, combos[k].range>> : k \in 1 .. Len(combos)}
           last(key) == CHOOSE k \in 1 .. Len(combos) :
                           /\ <<combos[k].source, combos[k].range>> = key
                           /\ \A j \in (k + 1) .. Len(combos) :
                                 <<combos[j].source, combos[j].range>> # key
       IN /\ IF failed # {}
             THEN /\ error' = calls[Min(failed)].error
                  /\ pc' = "failed"
                  /\ UNCHANGED <<estimator, results>>
             ELSE /\ estimator' = [key \in keys |-> calls[last(key)].est]
                  /\ results' = [key \in keys |->
                                   [frame |-> calls[last(key)].frame,
                                    sample |-> calls[last(key)].sample,
                                    dummy_range |-> combos[last(key)].dummy_range]]
                  /\ pc' = "estimated"
                  /\ UNCHANGED error
          /\ df_final' = calls[Len(calls)].panel
    /\ UNCHANGED <<atas_data, df_expected, filtered_df, dfs, df_merged, config,
                   analysis_summaries, callVars>>

-----------------------------------------------------------------------------
(* Specification of the estimation stage alone: the final Panel and the    *)
(* configuration are drawn in Init, the action is run_estimation.  Row i   *)
(* of the Panel is month i of its year; its values are 10 i + 1 .. 10 i + 5 *)
(* except for the one value, if any, that is missing.                      *)

EstYears == 0 .. 2
LastYear == CHOOSE y \in EstYears : \A z \in EstYears : z <= y
\* exchange_rate_var is lagged and dropped exactly as output_gap is
Missing == {"none", "selic_target", "output_gap",
            "focus_inflation_deviation", "bcb_inflation_deviation"}

Cell(i, col, code, missing) == IF missing = col THEN NaN ELSE 10 * i + code

EstRow(i, kind) ==
    [Date |-> [y |-> kind.ano, m |-> i],
     ano |-> kind.ano,
     mes |-> i,
     selic_target |-> Cell(i, "selic_target", 1, kind.missing),
     output_gap |-> Cell(i, "output_gap", 2, kind.missing),
     exchange_rate_var |-> Cell(i, "exchange_rate_var", 3, kind.missing),
     focus_inflation_deviation |-> Cell(i, "focus_inflation_deviation", 4, kind.missing),
     bcb_inflation_deviation |-> Cell(i, "bcb_inflation_deviation", 5, kind.missing)]

\* the Panels of at most MaxEstRows rows, in the order of their years
EstPanels ==
    {[columns |-> <<"Date", "selic_target", "exchange_rate_var", "output_gap", "ano",
                    "mes", "bcb_inflation_deviation", "focus_inflation_deviation">>,
      rows |-> [i \in 1 .. Len(kinds) |-> EstRow(i, kinds[i])]] :
        kinds \in {ks \in SeqsUpTo([ano : EstYears, missing : Missing], MaxEstRows) :
                      \A i \in 1 .. (Len(ks) - 1) : ks[i].ano <= ks[i + 1].ano}}

YearRange(a, b) == [start |-> a, end |-> b, dummy_range |-> <<>>]

FinerRange(a, b) ==
    [start |-> a, end |-> b, dummy_range |-> << [y |-> 1, m |-> 1], [y |-> 1, m |-> 12] >>]

\* year_ranges: empty, one window (with or without a dummy range), or a
\* window split in two followed by the whole window
Windows == {w \in EstYears \X EstYears : w[1] <= w[2]}

YearRangeLists ==
    {<<>>}
    \cup {<<YearRange(w[1], w[2])>> : w \in Windows}
    \cup {<<FinerRange(a, LastYear)>> : a \in EstYears}
    \cup {<<YearRange(w[1], w[2]), YearRange(w[2] + 1, LastYear),
            YearRange(w[1], LastYear)>> : w \in {v \in Windows : v[2] < LastYear}}

Lags == {1, 2}

InitEst ==
    /\ pc = "final"
    /\ atas_data = {}
    /\ df_expected = <<>>
    /\ filtered_df = <<>>
    /\ dfs = <<>>
    /\ df_merged = NoFrame
    /\ df_final \in EstPanels
    /\ config \in [lag : Lags, year_ranges : YearRangeLists]
    /\ estimator = <<>>
    /\ results = <<>>
    /\ analysis_summaries = <<>>
    /\ error = NoError
    /\ CallIdle

NextEst == run_estimation

SpecEst == InitEst /\ [][NextEst]_vars

-----------------------------------------------------------------------------
(* Estimation stage: claims *)

DeviationColumn(source) ==
    IF source = "market" THEN "focus_inflation_deviation" ELSE "bcb_inflation_deviation"

\* the index labels of the rows of the Panel that have their three lagged
\* regressors and their deviation, for a source and the configured lag
Complete(source) ==
    {i \in 1 .. Len(df_final.rows) :
        /\ i > config.lag
        /\ df_final.rows[i - config.lag].selic_target # NaN
        /\ df_final.rows[i - config.lag].output_gap # NaN
        /\ df_final.rows[i - config.lag].exchange_rate_var # NaN
        /\ df_final.rows[i][DeviationColumn(source)] # NaN}

Labels(rows) == [i \in 1 .. Len(rows) |-> rows[i].idx]

\* the elements of a set of index labels, in ascending order
RECURSIVE Sorted(_)
Sorted(S) == IF S = {} THEN <<>> ELSE <<Min(S)>> \o Sorted(S \ {Min(S)})

\* C7: the lagged regressors of row i are the policy rate, output gap and
\* exchange-rate variation of row i-L of the Panel, inf_dev is the deviation of
\* row i itself, and the rows dropped are exactly those in which one of the
\* three lags or inf_dev is missing (the first L rows among them).
C7_LagThenListwiseDeletion ==
    pc = "estimated" =>
        \A key \in DOMAIN estimator :
            LET data == estimator[key].data
                L == config.lag
            IN /\ Labels(data) = Sorted(Complete(key[1]))
               /\ \A n \in 1 .. Len(data) :
                     LET i == data[n].idx
                     IN /\ data[n].selic_target_lag = df_final.rows[i - L].selic_target
                        /\ data[n].output_gap_lag = df_final.rows[i - L].output_gap
                        /\ data[n].exchange_rate_var_lag =
                              df_final.rows[i - L].exchange_rate_var
                        /\ data[n].inf_dev = df_final.rows[i][DeviationColumn(key[1])]

\* lag 1, three rows, the output gap of row 1 missing: row 1 (no lag) and
\* row 2 (a lag missing) are dropped, row 3 is kept and lagged on row 2
C7_Witness ==
    /\ pc = "estimated"
    /\ config.lag = 1
    /\ Len(df_final.rows) = 3
    /\ df_final.rows[1].output_gap = NaN
    /\ <<"market", None>> \in DOMAIN estimator
    /\ Labels(estimator[<<"market", None>>].data) = <<3>>
    /\ estimator[<<"market", None>>].data[1].selic_target_lag = df_final.rows[2].selic_target

\* C8: without a dummy range, the sample sizes over (a,b) and over (b+1,max)
\* add up to the sample size over (a,max), for the same Panel, source and lag.
C8_WindowSizesAddUp ==
    pc = "estimated" =>
        \A source \in Range(Sources), a \in EstYears, b \in EstYears :
            LET part1 == <<source, <<a, b>> >>
                part2 == <<source, <<b + 1, LastYear>> >>
                whole == <<source, <<a, LastYear>> >>
            IN ({part1, part2, whole} \subseteq DOMAIN results
                /\ \A k \in {part1, part2, whole} : results[k].dummy_range = <<>>)
               => /\ Len(results[part1].sample) + Len(results[part2].sample)
                        = Len(results[whole].sample)
                  /\ Len(results[part1].frame) + Len(results[part2].frame)
                        = Len(results[whole].frame)

\* the window (0,2) split after year 0, each part holding rows of the sample
C8_Witness ==
    /\ pc = "estimated"
    /\ config.year_ranges = <<YearRange(0, 0), YearRange(1, LastYear), YearRange(0, LastYear)>>
    /\ Len(results[<<"bc", <<0, 0>> >>].sample) = 1
    /\ Len(results[<<"bc", <<1, LastYear>> >>].sample) = 1
    /\ Len(results[<<"bc", <<0, LastYear>> >>].sample) = 2

\* the rows estimate_range and estimate_finer must keep for a key: the
\* complete rows whose year is in start..end
InWindow(key) ==
    {i \in Complete(key[1]) :
        /\ df_final.rows[i].ano >= key[2][1]
        /\ df_final.rows[i].ano <= key[2][2]}

\* C9: estimate_range and estimate_finer keep exactly the rows, after lag
\* construction and listwise deletion, whose year is in start..end, both
\* included; when no row remains the run ends with an error naming the range.
C9_InclusiveWindowOrError ==
    /\ pc = "estimated" =>
          \A key \in DOMAIN results :
              key[2] # None =>
                  /\ Labels(results[key].frame) = Sorted(InWindow(key))
                  /\ InWindow(key) # {}
    /\ pc = "failed" =>
          /\ error.type = "PipelineError"
          /\ error.cause = "ValueError"
          /\ \E k \in 1 .. Len(Combinations) :
                /\ Combinations[k].range = error.year_range
                /\ InWindow(<<Combinations[k].source, Combinations[k].range>>) = {}

\* a window that ends in the year of the last row keeps that row (with and
\* without a dummy range)
C9_Witness ==
    /\ pc = "estimated"
    /\ Len(config.year_ranges) = 1
    /\ config.year_ranges[1].dummy_range # <<>>
    /\ config.year_ranges[1].start = 1
    /\ df_final.rows[Len(df_final.rows)].ano = LastYear
    /\ Labels(results[<<"market", <<1, LastYear>> >>].frame) = <<2, 3>>
    /\ results[<<"market", <<1, LastYear>> >>].frame[2].ano = LastYear

\* a run that ends with the error of an empty window
C9_WitnessError ==
    /\ pc = "failed"
    /\ error.year_range = <<1, 1>>
    /\ Len(df_final.rows) = 3


\* C19: a combination leaves the Panel df_final as it was, and what it
\* leaves (its estimator, the frame given to the models, the fitted sample)
\* is what the same combination gives when it is run alone on df_final,
\* whatever combinations ran before it.
C19_CombinationsIndependent ==
    [][pc = "final" =>
          /\ df_final' = df_final
          /\ pc' = "estimated" =>
                \A k \in 1 .. Len(Combinations) :
                    LET c == Combinations[k]
                        key == <<c.source, c.range>>
                        alone == estimate_taylor_rule(df_final, c.source, c.range,
                                                      c.dummy_range)
                    IN /\ ~alone.raised
                       /\ estimator'[key] = alone.est
                       /\ results'[key].frame = alone.frame
                       /\ results'[key].sample = alone.sample]_vars

\* six combinations on a Panel of three rows, lag 1: the first estimator has
\* dropped row 1 of its table, and the last combination, over the whole
\* window, still has rows 2 and 3 of the Panel
C19_Witness ==
    /\ pc = "estimated"
    /\ config.lag = 1
    /\ config.year_ranges = <<YearRange(0, 0), YearRange(1, LastYear), YearRange(0, LastYear)>>
    /\ Len(df_final.rows) = 3
    /\ Labels(estimator[<<"market", <<0, 0>> >>].data) = <<2, 3>>
    /\ Labels(results[<<"bc", <<0, LastYear>> >>].sample) = <<2, 3>>

-----------------------------------------------------------------------------
(* analytics.analyze.  A fitted result is a record of its coefficients      *)
(* (params, indexed by the name of the regressor) and of the four values of *)
(* the Breusch-Godfrey test.  A coefficient is a float64: a finite value,   *)
(* kept as a fraction n / d in lowest terms with d > 0, or one of inf, -inf *)
(* and nan.  The division is the float64 division: a zero divisor gives     *)
(* inf, -inf or nan and raises nothing.                                     *)

Abs(n) == IF n < 0 THEN -n ELSE n

RECURSIVE GCD(_, _)
GCD(a, b) == IF b = 0 THEN a ELSE GCD(b, a % b)

Float(n, d) ==
    LET g == GCD(Abs(n), d)
    IN [class |-> "finite", n |-> n \div g, d |-> d \div g]

Inf == [class |-> "inf"]
NegInf == [class |-> "-inf"]
FloatNaN == [class |-> "nan"]

IsFinite(x) == x.class = "finite"

\* x - y, for finite x and y
FloatSub(x, y) == Float(x.n * y.d - y.n * x.d, x.d * y.d)

\* x / y, for finite x and y; the zero of 1 - alpha1 is +0.0
FloatDiv(x, y) ==
    IF y.n = 0
    THEN IF x.n = 0 THEN FloatNaN ELSE IF x.n > 0 THEN Inf ELSE NegInf
    ELSE IF y.n > 0 THEN Float(x.n * y.d, x.d * y.n)
    ELSE Float(-(x.n * y.d), x.d * (-y.n))

\* self.results.params.get(name, 0)
ParamsGet(params, name) ==
    IF name \in DOMAIN params THEN params[name] ELSE Float(0, 1)

\* the variant that returns the coefficients as they were fitted
estructural_params_raw(res) ==
    <<res.params["selic_target_lag"], res.params["inf_dev"],
      ParamsGet(res.params, "output_gap_lag"),
      ParamsGet(res.params, "exchange_rate_var_lag")>>

estructural_params(res) ==
    LET alpha1 == res.params["selic_target_lag"]
        alpha2 == FloatDiv(res.params["inf_dev"], FloatSub(Float(1, 1), alpha1))
        alpha3 == FloatDiv(ParamsGet(res.params, "output_gap_lag"),
                           FloatSub(Float(1, 1), alpha1))
        alpha4 == FloatDiv(ParamsGet(res.params, "exchange_rate_var_lag"),
                           FloatSub(Float(1, 1), alpha1))
    IN <<alpha1, alpha2, alpha3, alpha4>>

\* lm_test[3] of the tuple (lm, lm p-value, f, f p-value), indexed from 0
lm_value(res) == res.lm_test[4]

summarize_results(res) ==
    LET alphas == estructural_params(res)
    IN [alpha1 |-> alphas[1], alpha2 |-> alphas[2],
        alpha3 |-> alphas[3], alpha4 |-> alphas[4],
        lm_stat |-> lm_value(res),
        test |-> "inf_dev + selic_target_lag = 1",
        summary |-> res.params]

\* Pipeline.run_analysis(results): the report of the last result (model III)
\* of every combination
run_analysis ==
    /\ pc = "estimated"
    /\ analysis_summaries' =
          [key \in DOMAIN results |->
              summarize_results(results[key][Len(results[key])])]
    /\ pc' = "analyzed"
    /\ UNCHANGED <<atas_data, df_expected, filtered_df, runVars, config, estimator,
                   results, error, callVars>>

-----------------------------------------------------------------------------
(* Specification of the analysis stage alone: the results of the two        *)
(* combinations of a configuration without year ranges are drawn in Init,   *)
(* the action is run_analysis.                                              *)

\* the coefficients of model III; models I and II are fitted without the
\* exchange-rate regressor and without both lagged regressors
ModelParams ==
    [{"Intercept", "selic_target_lag", "inf_dev", "output_gap_lag",
      "exchange_rate_var_lag"} ->
        {Float(0, 1), Float(1, 2), Float(1, 1), Float(3, 2), Float(-3, 10), Float(3, 10)}]

AnaParams ==
    {p \in ModelParams :
        /\ p["Intercept"] = Float(1, 1)
        /\ p["selic_target_lag"] \in {Float(0, 1), Float(1, 2), Float(1, 1), Float(3, 2)}
        /\ p["inf_dev"] \in {Float(-3, 10), Float(0, 1), Float(3, 10)}
        /\ p["output_gap_lag"] \in {Float(0, 1), Float(1, 2)}
        /\ p["exchange_rate_var_lag"] \in {Float(0, 1), Float(-3, 10)}}

Restrict(f, S) == [x \in S |-> f[x]]

LmTests == {<<Float(5, 1), Float(3, 10), Float(3, 2), Float(1, 2)>>}

ResList(p, lm) ==
    << [params |-> Restrict(p, {"Intercept", "selic_target_lag", "inf_dev"}),
        lm_test |-> lm],
       [params |-> Restrict(p, {"Intercept", "selic_target_lag", "inf_dev",
                                "output_gap_lag"}),
        lm_test |-> lm],
       [params |-> p, lm_test |-> lm] >>

ResLists == {ResList(p, lm) : p \in AnaParams, lm \in LmTests}

AnaKeys == {<<Sources[i], None>> : i \in 1 .. Len(Sources)}

InitAna ==
    /\ pc = "estimated"
    /\ atas_data = {}
    /\ df_expected = <<>>
    /\ filtered_df = <<>>
    /\ dfs = <<>>
    /\ df_merged = NoFrame
    /\ df_final = NoFrame
    /\ config = NoConfig
    /\ estimator = <<>>
    /\ results \in [AnaKeys -> ResLists]
    /\ analysis_summaries = <<>>
    /\ error = NoError
    /\ CallIdle

NextAna == run_analysis

SpecAna == InitAna /\ [][NextAna]_vars

-----------------------------------------------------------------------------
(* Analysis stage: claims *)

Alphas(report) == {report.alpha1, report.alpha2, report.alpha3, report.alpha4}

\* C10: when the coefficient on selic_target_lag of an analysed result is
\* exactly 1, the analysis ends with a signalled error; no report is produced
\* from infinite or not-a-number response coefficients.
C10_DegenerateAlphaSignalled ==
    pc = "analyzed" =>
        /\ \A key \in DOMAIN results :
              results[key][Len(results[key])].params["selic_target_lag"] # Float(1, 1)
        /\ \A key \in DOMAIN analysis_summaries :
              \A alpha \in Alphas(analysis_summaries[key]) : IsFinite(alpha)


\* C20: the autocorrelation value of a report is the Lagrange-multiplier
\* statistic of the Breusch-Godfrey test, the first component of the test's
\* result (LM statistic, LM p-value, F statistic, F p-value).
C20_ReportsLmStatistic ==
    pc = "analyzed" =>
        \A key \in DOMAIN analysis_summaries :
            analysis_summaries[key].lm_stat = results[key][Len(results[key])].lm_test[1]

-----------------------------------------------------------------------------
(* Specification of estructural_params called on its own, on a result of    *)
(* any of the three models: model I has neither lagged regressor, model II  *)
(* has no exchange-rate regressor.                                          *)

FitResults == {rl[i] : rl \in ResLists, i \in 1 .. 3}

InitParams ==
    /\ pc = "call"
    /\ atas_data = {}
    /\ df_expected = <<>>
    /\ filtered_df = <<>>
    /\ dfs = <<>>
    /\ df_merged = NoFrame
    /\ df_final = NoFrame
    /\ EstimationIdle
    /\ invocation \in [op : {"estructural_params"}, results : FitResults]
    /\ returned = NoCall

call_estructural_params ==
    /\ pc = "call"
    /\ invocation.op = "estructural_params"
    /\ returned' = estructural_params(invocation.results)
    /\ pc' = "returned"
    /\ UNCHANGED <<atas_data, df_expected, filtered_df, runVars, estVars, invocation>>

NextParams == call_estructural_params

SpecParams == InitParams /\ [][NextParams]_vars

\* alpha is the quotient of coefficient c by 1 - alpha1 (all finite)
IsRescaled(alpha, c, alpha1) ==
    /\ IsFinite(alpha)
    /\ alpha.n * (alpha1.d - alpha1.n) * c.d = c.n * alpha.d * alpha1.d

\* C11: when alpha1 differs from 1, estructural_params returns alpha1 = the
\* coefficient on selic_target_lag, alpha2 = (coefficient on inf_dev) /
\* (1 - alpha1), alpha3 and alpha4 = the coefficients on output_gap_lag and
\* exchange_rate_var_lag divided by (1 - alpha1), each 0 when its regressor
\* is absent; alpha1 = 0.5 with an inflation coefficient of 0.3 gives 0.6.
C11_StructuralRescaling ==
    (pc = "returned" /\ invocation.op = "estructural_params") =>
        LET params == invocation.results.params
            alpha1 == params["selic_target_lag"]
            Rescaled(alpha, name) ==
                IF name \in DOMAIN params THEN IsRescaled(alpha, params[name], alpha1)
                ELSE alpha = Float(0, 1)
        IN alpha1 # Float(1, 1) =>
              /\ returned[1] = alpha1
              /\ IsRescaled(returned[2], params["inf_dev"], alpha1)
              /\ Rescaled(returned[3], "output_gap_lag")
              /\ Rescaled(returned[4], "exchange_rate_var_lag")
              /\ (alpha1 = Float(1, 2) /\ params["inf_dev"] = Float(3, 10))
                    => returned[2] = Float(3, 5)

\* model I with alpha1 = 0.5 and an inflation coefficient of 0.3: alpha2 is
\* 0.6, alpha3 and alpha4 are 0
C11_Witness ==
    /\ pc = "returned"
    /\ invocation.op = "estructural_params"
    /\ DOMAIN invocation.results.params = {"Intercept", "selic_target_lag", "inf_dev"}
    /\ invocation.results.params["selic_target_lag"] = Float(1, 2)
    /\ invocation.results.params["inf_dev"] = Float(3, 10)
    /\ returned = <<Float(1, 2), Float(3, 5), Float(0, 1), Float(0, 1)>>

-----------------------------------------------------------------------------
(* The frequency normalizers of processing.py, from the raw tables.  A raw  *)
(* date is the text of a date cell: a record of the numbers written in it   *)
(* (d, m, y for '%d/%m/%Y'; m, y for '%m/%Y'; y for '%Y') or Malformed, a   *)
(* text the format does not match.  A raw number is the text of a value     *)
(* cell: [text |-> "number", sep |-> its decimal separator, value |-> v] or *)
(* Junk.                                                                    *)

Malformed == [text |-> "malformed"]
Junk == [text |-> "junk"]

\* pd.to_datetime of one cell: the timestamp the text denotes under the
\* format; NaN (NaT) stands for a text that does not match
Strptime(s, format) ==
    IF s = Malformed THEN NaN
    ELSE IF format \in {"%d/%m/%Y", "dayfirst"}
    THEN MonthStart([y |-> s.y, m |-> s.m]) + s.d - 1
    ELSE IF format = "%m/%Y" THEN MonthStart([y |-> s.y, m |-> s.m])
    ELSE MonthStart([y |-> s.y, m |-> 1])

\* Series.str.replace(',', '.') of one cell
ReplaceComma(s) == IF s = Junk THEN Junk ELSE [s EXCEPT !.sep = "."]

\* pd.to_numeric(errors='coerce') of one cell
ToNumeric(s) == IF s = Junk THEN NaN ELSE IF s.sep = "." THEN s.value ELSE NaN

\* months counted from January of year 0
MonthIndex(d) == 12 * to_period_M(d).y + to_period_M(d).m - 1
PeriodOf(i) == [y |-> i \div 12, m |-> (i % 12) + 1]

Max(S) == CHOOSE x \in S : \A y \in S : y <= x

RaiseValueError(message) == [raised |-> TRUE, type |-> "ValueError", message |-> message]

Return(df) == [raised |-> FALSE, df |-> df]

\* the variant that repeats the last valid value instead of interpolating
InterpolatePad(vals, p) ==
    LET before == {q \in DOMAIN vals : q <= p /\ vals[q] # NaN}
    IN IF before = {} THEN NaN ELSE vals[Max(before)]

\* Series.interpolate(method='linear') at position p of vals (a function on
\* lo..hi): the points are taken as equally spaced; the values after the
\* last valid one repeat it, the values before the first valid one stay NaN
Interpolate(vals, p) ==
    LET before == {q \in DOMAIN vals : q < p /\ vals[q] # NaN}
        after == {q \in DOMAIN vals : q > p /\ vals[q] # NaN}
    IN IF vals[p] # NaN THEN vals[p]
       ELSE IF before = {} THEN NaN
       ELSE IF after = {} THEN vals[Max(before)]
       ELSE LET q == Max(before)
                r == Min(after)
            IN vals[q] + ((vals[r] - vals[q]) * (p - q)) \div (r - q)

\* resample('MS').asfreq() of a table indexed by month starts: one row for
\* every month from the first to the last index value, holding the value of
\* the row of that month; reindexing raises on a duplicated index value
AsFreqMS(dates, values) ==
    LET months == {MonthIndex(dates[i]) : i \in DOMAIN dates}
    IN [mi \in Min(months) .. Max(months) |->
          IF \E i \in DOMAIN dates : MonthIndex(dates[i]) = mi
          THEN values[CHOOSE i \in DOMAIN dates : MonthIndex(dates[i]) = mi]
          ELSE NaN]

Distinct(s) == \A i \in DOMAIN s, j \in DOMAIN s : i # j => s[i] # s[j]

\* a function on lo..hi as a sequence
AsSeq(f, lo, hi) == [i \in 1 .. (hi - lo + 1) |-> f[lo + i - 1]]

interpolate_quartely_data(df) ==
    IF \E i \in DOMAIN df : df[i].Date = Malformed
    THEN RaiseValueError("time data does not match format")
    ELSE LET dates == [i \in DOMAIN df |-> Strptime(df[i].Date, "%m/%Y")]
             values == [i \in DOMAIN df |-> ToNumeric(df[i].value)]
         IN IF df = <<>>
            THEN Return([columns |-> <<"Date", "bcb_expected_inflation">>, rows |-> <<>>])
            ELSE IF ~Distinct(dates)
            THEN RaiseValueError("cannot reindex on an axis with duplicate labels")
            ELSE LET monthly == AsFreqMS(dates, values)
                     lo == Min(DOMAIN monthly)
                     hi == Max(DOMAIN monthly)
                 IN Return([columns |-> <<"Date", "bcb_expected_inflation">>,
                            rows |-> AsSeq([mi \in lo .. hi |->
                                       [Date |-> MonthStart(PeriodOf(mi)),
                                        bcb_expected_inflation |->
                                            Interpolate(monthly, mi)]], lo, hi)])

\* the positions of rows in the order resample gives them: by date, rows of
\* one date in the order of the table (a stable sort)
Earlier(dates, i, j) == dates[i] < dates[j] \/ (dates[i] = dates[j] /\ i < j)

\* GroupBy.mean() of the rows idx, the missing values left out
RECURSIVE Sum(_, _)
Sum(values, idx) ==
    IF idx = {} THEN 0
    ELSE LET i == CHOOSE k \in idx : TRUE IN values[i] + Sum(values, idx \ {i})

MeanValid(dates, values, idx) ==
    LET valid == {i \in idx : values[i] # NaN}
    IN IF valid = {} THEN NaN ELSE Sum(values, valid) \div Cardinality(valid)

\* GroupBy.first() of the rows idx: the value of the first row, in that
\* order, whose value is not missing
FirstValid(dates, values, idx) ==
    LET valid == {i \in idx : values[i] # NaN}
    IN IF valid = {} THEN NaN
       ELSE values[CHOOSE i \in valid : \A j \in valid : j = i \/ Earlier(dates, i, j)]

\* GroupBy.last() of the rows idx: the value of the last row, in that order,
\* whose value is not missing
LastValid(dates, values, idx) ==
    LET valid == {i \in idx : values[i] # NaN}
    IN IF valid = {} THEN NaN
       ELSE values[CHOOSE i \in valid : \A j \in valid : j = i \/ Earlier(dates, j, i)]

\* resample('ME') followed by last(): the rows whose date is NaT belong to no
\* month; one row for every month from the first to the last date.  On a
\* table whose dates are all NaT the range of months has no ends: the call
\* raises or returns no row.
ResampleLast(dates, values, col) ==
    LET dated == {i \in DOMAIN dates : dates[i] # NaN}
        months == {MonthIndex(dates[i]) : i \in dated}
        empty == Return([columns |-> <<"Date", col>>, rows |-> <<>>])
    IN IF dates = <<>> THEN {empty}
       ELSE IF dated = {} THEN {empty, RaiseValueError("neither start nor end can be NaT")}
       ELSE LET lo == Min(months)
                hi == Max(months)
            IN {Return([columns |-> <<"Date", col>>,
                        rows |-> AsSeq([mi \in lo .. hi |->
                                   ("Date" :> MonthEnd(PeriodOf(mi)) @@
                                    col :> LastValid(dates, values,
                                              {i \in dated : MonthIndex(dates[i]) = mi}))],
                                   lo, hi)])}

\* the outcomes of resample_daily_to_monthly(df, column)
resample_daily_to_monthly(df) ==
    LET dates == [i \in DOMAIN df |-> Strptime(df[i].Date, "%d/%m/%Y")]
        values == [i \in DOMAIN df |-> ToNumeric(ReplaceComma(df[i].value))]
    IN ResampleLast(dates, values, "selic_target")

\* Series.ffill() at position k of a sequence
RECURSIVE FFill(_, _)
FFill(vals, k) ==
    IF vals[k] # NaN \/ k = 1 THEN vals[k] ELSE FFill(vals, k - 1)

\* NaN-propagating sum and difference of two columns
Plus(a, b) == IF a = NaN \/ b = NaN THEN NaN ELSE a + b
Less(a, b) == IF a = NaN \/ b = NaN THEN NaN ELSE a - b

\* lines 126-132 on the rows the resampling left: the target is forward
\* filled, the interval size is not, the limits are their sum and difference
TargetColumns(rows) ==
    LET target == [k \in DOMAIN rows |-> ToNumeric(rows[k].inflation_target)]
        size == [k \in DOMAIN rows |-> ToNumeric(rows[k].interval_size)]
    IN [k \in DOMAIN rows |->
          [Date |-> rows[k].Date,
           inflation_target |-> FFill(target, k),
           interval_size |-> size[k],
           upper_limit |-> Plus(FFill(target, k), size[k]),
           lower_limit |-> Less(FFill(target, k), size[k])]]

\* the variant in which the interval size is forward filled like the target
TargetColumnsFilled(rows) ==
    LET target == [k \in DOMAIN rows |-> ToNumeric(rows[k].inflation_target)]
        size == [k \in DOMAIN rows |-> ToNumeric(rows[k].interval_size)]
    IN [k \in DOMAIN rows |->
          [Date |-> rows[k].Date,
           inflation_target |-> FFill(target, k),
           interval_size |-> FFill(size, k),
           upper_limit |-> Plus(FFill(target, k), FFill(size, k)),
           lower_limit |-> Less(FFill(target, k), FFill(size, k))]]

TargetFrame(rows) ==
    Return([columns |-> <<"Date", "inflation_target", "interval_size",
                          "upper_limit", "lower_limit">>,
            rows |-> TargetColumns(rows)])

\* the outcomes of resample_annualy_to_monthly(df).  resample('MS').asfreq()
\* lays out the months from the first to the last date and takes, for each,
\* the row of the table dated that month start (the cells of the other months
\* are missing, which to_numeric keeps); it raises on a duplicated date.  What
\* it does with a single row dated NaT is not fixed here: the row is left
\* out, or kept first under the label NaT.
resample_annualy_to_monthly(df) ==
    LET dates == [i \in DOMAIN df |-> Strptime(df[i].Date, "%Y")]
        dated == {i \in DOMAIN df : dates[i] # NaN}
        undated == DOMAIN df \ dated
        months == {MonthIndex(dates[i]) : i \in dated}
        lo == Min(months)
        hi == Max(months)
        blank(d) == [Date |-> d, inflation_target |-> Junk, interval_size |-> Junk]
        at(mi) == IF mi \in months
                  THEN LET i == CHOOSE j \in dated : MonthIndex(dates[j]) = mi
                       IN [Date |-> dates[i], inflation_target |-> df[i].inflation_target,
                           interval_size |-> df[i].interval_size]
                  ELSE blank(MonthStart(PeriodOf(mi)))
        monthly == IF dated = {} THEN <<>> ELSE AsSeq([mi \in lo .. hi |-> at(mi)], lo, hi)
        nat == LET i == CHOOSE j \in undated : TRUE
               IN [Date |-> NaN, inflation_target |-> df[i].inflation_target,
                   interval_size |-> df[i].interval_size]
    IN IF df = <<>> THEN {TargetFrame(<<>>)}
       ELSE IF ~Distinct(dates)
       THEN {RaiseValueError("cannot reindex on an axis with duplicate labels")}
       ELSE IF undated = {} THEN {TargetFrame(monthly)}
       ELSE IF dated = {}
       THEN {TargetFrame(<<>>), TargetFrame(<<nat>>),
             RaiseValueError("neither start nor end can be NaT")}
       ELSE {TargetFrame(monthly), TargetFrame(<<nat>> \o monthly)}

\* Series.pct_change(fill_method=None) * 100 at position k, in the unit of
\* the values
PctChange(vals, k) ==
    IF k = 1 \/ vals[k] = NaN \/ vals[k - 1] = NaN THEN NaN
    ELSE (120 * 100 * (vals[k] - vals[k - 1])) \div vals[k - 1]

\* the outcomes of process_exchange_rate_data(df): the monthly means of the
\* dated rows and their percentage change
process_exchange_rate_data(df) ==
    LET dates == [i \in DOMAIN df |-> Strptime(df[i].Date, "%d/%m/%Y")]
        values == [i \in DOMAIN df |-> ToNumeric(ReplaceComma(df[i].value))]
        dated == {i \in DOMAIN df : dates[i] # NaN}
        months == {MonthIndex(dates[i]) : i \in dated}
        lo == Min(months)
        hi == Max(months)
        mean == AsSeq([mi \in lo .. hi |->
                         MeanValid(dates, values, {i \in dated : MonthIndex(dates[i]) = mi})],
                      lo, hi)
        frame(rows) == Return([columns |-> <<"Date", "exchange_rate", "exchange_rate_var">>,
                               rows |-> rows])
    IN IF df = <<>> THEN {frame(<<>>)}
       ELSE IF dated = {}
       THEN {frame(<<>>), RaiseValueError("neither start nor end can be NaT")}
       ELSE {frame([k \in 1 .. (hi - lo + 1) |->
                      [Date |-> MonthEnd(PeriodOf(lo + k - 1)),
                       exchange_rate |-> mean[k],
                       exchange_rate_var |-> PctChange(mean, k)]])}

\* filter_expected_inflation_dates from the raw survey table: lines 16 and
\* 18 parse the dates without errors='coerce', so that a text that is not a
\* date raises; the parsed table then goes through lines 21-27
ParsedSurvey(df) ==
    [i \in DOMAIN df |-> [Date |-> Strptime(df[i].Date, "dayfirst"),
                          focus_expected_inflation |-> df[i].focus_expected_inflation]]

filter_raw_survey(atas, df) ==
    IF Malformed \in atas \/ \E i \in DOMAIN df : df[i].Date = Malformed
    THEN RaiseValueError("unknown datetime string format")
    ELSE Return(filter_expected_inflation_dates(
                    {Strptime(a, "dayfirst") : a \in atas}, ParsedSurvey(df)))

-----------------------------------------------------------------------------
(* Specification of the frequency normalizers called on their own: the raw  *)
(* table is drawn in Init, one action per normalizer.                       *)

RawNumbers == {[text |-> "number", sep |-> ".", value |-> v] : v \in {360, 720}} \cup {Junk}

QuarterDates ==
    {[m |-> 3 * (q % 4) + 1, y |-> q \div 4] : q \in 0 .. MaxQuarter} \cup {Malformed}

QuarterTables == SeqsUpTo([Date : QuarterDates, value : RawNumbers], MaxRawRows)

\* daily cells: the 1st and the 20th of the months 1..MaxMonth of year 0,
\* values written with a decimal comma
DailyDates == [d : {1, 20}, m : 1 .. MaxMonth, y : {0}] \cup {Malformed}

CommaNumbers == {[text |-> "number", sep |-> ",", value |-> v] : v \in {360, 720}} \cup {Junk}

DailyTables == SeqsUpTo([Date : DailyDates, value : CommaNumbers], MaxRawRows)

ExchangeTables == SeqsUpTo([Date : DailyDates, value : CommaNumbers], MaxShortRows)

\* annual cells: the years 0..MaxYear, a target and an interval size
AnnualDates == [y : 0 .. MaxYear] \cup {Malformed}

AnnualTargets == {[text |-> "number", sep |-> ".", value |-> v] : v \in {360, 540}} \cup {Junk}

AnnualSizes == {[text |-> "number", sep |-> ".", value |-> 240], Junk}

AnnualTables ==
    SeqsUpTo([Date : AnnualDates, inflation_target : AnnualTargets,
              interval_size : AnnualSizes], MaxShortRows)

\* survey cells: three days of January of year 0; meetings on two later days
RawSurveyDates == [d : {4, 9, 11}, m : {1}, y : {0}] \cup {Malformed}

RawMeetingDates == [d : {10, 12}, m : {1}, y : {0}]

RawSurveys ==
    SeqsUpTo([Date : RawSurveyDates, focus_expected_inflation : {600}], MaxRawRows)

NormalizerCalls ==
    [op : {"interpolate_quartely_data"}, df : QuarterTables]
    \cup [op : {"process_exchange_rate_data"}, df : ExchangeTables]
    \cup [op : {"filter_expected_inflation_dates"}, df : RawSurveys,
          atas_data : (SUBSET RawMeetingDates) \ {{}}]
    \cup [op : {"resample_annualy_to_monthly"}, df : AnnualTables]
    \cup [op : {"resample_daily_to_monthly"}, df : DailyTables]

InitNormalize ==
    /\ pc = "call"
    /\ atas_data = {}
    /\ df_expected = <<>>
    /\ filtered_df = <<>>
    /\ dfs = <<>>
    /\ df_merged = NoFrame
    /\ df_final = NoFrame
    /\ EstimationIdle
    /\ invocation \in NormalizerCalls
    /\ returned = NoCall

Called(op, result) ==
    /\ pc = "call"
    /\ invocation.op = op
    /\ returned' = result
    /\ pc' = "returned"
    /\ UNCHANGED <<atas_data, df_expected, filtered_df, runVars, estVars, invocation>>

call_interpolate_quartely_data ==
    Called("interpolate_quartely_data", interpolate_quartely_data(invocation.df))

call_resample_daily_to_monthly ==
    /\ invocation.op = "resample_daily_to_monthly"
    /\ \E outcome \in resample_daily_to_monthly(invocation.df) :
          Called("resample_daily_to_monthly", outcome)

call_resample_annualy_to_monthly ==
    /\ invocation.op = "resample_annualy_to_monthly"
    /\ \E outcome \in resample_annualy_to_monthly(invocation.df) :
          Called("resample_annualy_to_monthly", outcome)

call_process_exchange_rate_data ==
    /\ invocation.op = "process_exchange_rate_data"
    /\ \E outcome \in process_exchange_rate_data(invocation.df) :
          Called("process_exchange_rate_data", outcome)

call_filter_expected_inflation_dates ==
    /\ invocation.op = "filter_expected_inflation_dates"
    /\ Called("filter_expected_inflation_dates",
              filter_raw_survey(invocation.atas_data, invocation.df))

NextNormalize ==
    \/ call_filter_expected_inflation_dates
    \/ call_process_exchange_rate_data
    \/ call_interpolate_quartely_data
    \/ call_resample_annualy_to_monthly
    \/ call_resample_daily_to_monthly

SpecNormalize == InitNormalize /\ [][NextNormalize]_vars

-----------------------------------------------------------------------------
(* Frequency normalizers: claims *)

Returned(op) == pc = "returned" /\ invocation.op = op

WellFormed(df) == \A i \in DOMAIN df : df[i].Date # Malformed

\* the months of a returned table are lo..hi, each once, in ascending order
CoversMonths(rows, lo, hi) ==
    /\ Len(rows) = hi - lo + 1
    /\ \A k \in 1 .. Len(rows) : MonthIndex(rows[k].Date) = lo + k - 1

\* C12: for a quarterly series (well-formed dates, one observation a month at
\* most) interpolate_quartely_data returns one row for every month from the
\* first to the last observation and none outside; a month with a parsable
\* observation holds that observation; between observations a at month t and
\* b at month t+3 the months t+1 and t+2 hold a+(b-a)/3 and a+2(b-a)/3; no
\* month between two parsable observations is missing.
C12_QuarterlyInterpolation ==
    LET df == invocation.df
        month(i) == MonthIndex(Strptime(df[i].Date, "%m/%Y"))
        months == {month(i) : i \in DOMAIN df}
        parsable == {i \in DOMAIN df : ToNumeric(df[i].value) # NaN}
        rows == returned.df.rows
        out(mi) == rows[mi - Min(months) + 1].bcb_expected_inflation
    IN (/\ Returned("interpolate_quartely_data")
        /\ df # <<>>
        /\ WellFormed(df)
        /\ \A i \in DOMAIN df, j \in DOMAIN df : i # j => month(i) # month(j))
       => /\ ~returned.raised
          /\ CoversMonths(rows, Min(months), Max(months))
          /\ \A k \in 1 .. Len(rows) : rows[k].Date = MonthStart(PeriodOf(Min(months) + k - 1))
          /\ \A i \in parsable : out(month(i)) = df[i].value.value
          /\ \A i \in parsable, j \in parsable :
                month(j) = month(i) + 3 =>
                    LET a == df[i].value.value
                        b == df[j].value.value
                    IN /\ 3 * out(month(i) + 1) = 3 * a + (b - a)
                       /\ 3 * out(month(i) + 2) = 3 * a + 2 * (b - a)
          /\ \A i \in parsable, j \in parsable :
                \A mi \in month(i) .. month(j) : out(mi) # NaN

\* observations 6.0 in April and 3.0 in January, in this order in the raw
\* table: the four months from January to April hold 3.0, 4.0, 5.0, 6.0
C12_Witness ==
    /\ Returned("interpolate_quartely_data")
    /\ Len(invocation.df) = 2
    /\ invocation.df[1].Date = [m |-> 4, y |-> 0]
    /\ invocation.df[2].Date = [m |-> 1, y |-> 0]
    /\ ~returned.raised
    /\ Len(returned.df.rows) = 4
    /\ [k \in 1 .. 4 |-> returned.df.rows[k].bcb_expected_inflation] = <<360, 480, 600, 720>>

\* C13: resample_daily_to_monthly returns one row for every month from the
\* first to the last dated daily observation; the value of a month is the
\* parsable observation of that month with the latest date (the later row of
\* the table among observations of one day), not their mean; a month with
\* no parsable observation has a missing value.
C13_MonthlyLastObservation ==
    LET df == invocation.df
        dated == {i \in DOMAIN df : df[i].Date # Malformed}
        date(i) == Strptime(df[i].Date, "%d/%m/%Y")
        months == {MonthIndex(date(i)) : i \in dated}
        rows == returned.df.rows
        obs(mi) == {i \in dated : MonthIndex(date(i)) = mi /\ df[i].value # Junk}
    IN (Returned("resample_daily_to_monthly") /\ dated # {})
       => /\ ~returned.raised
          /\ CoversMonths(rows, Min(months), Max(months))
          /\ \A k \in 1 .. Len(rows) :
                LET mi == Min(months) + k - 1
                IN /\ rows[k].Date = MonthEnd(PeriodOf(mi))
                   /\ IF obs(mi) = {} THEN rows[k].selic_target = NaN
                      ELSE \E i \in obs(mi) :
                              /\ rows[k].selic_target = df[i].value.value
                              /\ \A j \in obs(mi) :
                                    \/ date(j) < date(i)
                                    \/ (date(j) = date(i) /\ j <= i)

\* month 1 observed on the 20th (3.0) and, later in the table, on the 1st
\* (6.0), month 2 with an unparsable value only: month 1 holds 3.0, month 2
\* is missing
C13_Witness ==
    /\ Returned("resample_daily_to_monthly")
    /\ Len(invocation.df) = 3
    /\ invocation.df[1] = [Date |-> [d |-> 20, m |-> 1, y |-> 0],
                           value |-> [text |-> "number", sep |-> ",", value |-> 360]]
    /\ invocation.df[2] = [Date |-> [d |-> 1, m |-> 1, y |-> 0],
                           value |-> [text |-> "number", sep |-> ",", value |-> 720]]
    /\ invocation.df[3] = [Date |-> [d |-> 1, m |-> 2, y |-> 0], value |-> Junk]
    /\ ~returned.raised
    /\ Len(returned.df.rows) = 2
    /\ returned.df.rows[1].selic_target = 360
    /\ returned.df.rows[2].selic_target = NaN

\* C14: resample_annualy_to_monthly gives every month from the first to the
\* last annual observation the target of the latest observation at or before
\* it, and upper_limit and lower_limit equal to that target plus and minus
\* the interval size of the same observation, so that both limits are
\* defined in every month that has a target.
C14_TargetAndLimitsForwardFilled ==
    LET df == invocation.df
        year(i) == MonthIndex(Strptime(df[i].Date, "%Y"))
        months == {year(i) : i \in DOMAIN df}
        rows == returned.df.rows
        latest(mi) == CHOOSE i \in DOMAIN df :
                         /\ year(i) <= mi
                         /\ \A j \in DOMAIN df : year(j) <= mi => year(j) <= year(i)
    IN (/\ Returned("resample_annualy_to_monthly")
        /\ df # <<>>
        /\ WellFormed(df)
        /\ \A i \in DOMAIN df : df[i].inflation_target # Junk /\ df[i].interval_size # Junk
        /\ \A i \in DOMAIN df, j \in DOMAIN df : i # j => year(i) # year(j))
       => /\ ~returned.raised
          /\ CoversMonths(rows, Min(months), Max(months))
          /\ \A k \in 1 .. Len(rows) :
                LET obs == df[latest(Min(months) + k - 1)]
                IN /\ rows[k].inflation_target = obs.inflation_target.value
                   /\ rows[k].upper_limit =
                         obs.inflation_target.value + obs.interval_size.value
                   /\ rows[k].lower_limit =
                         obs.inflation_target.value - obs.interval_size.value

NormalizerOps ==
    {"filter_expected_inflation_dates", "interpolate_quartely_data",
     "resample_daily_to_monthly", "process_exchange_rate_data",
     "resample_annualy_to_monthly"}

\* C15: in each of the five normalizers a raw row whose date text is
\* malformed does not abort the call: on a table with one such row and
\* otherwise well-formed, distinct dates the call completes and returns a
\* table.
C15_MalformedDateDoesNotAbort ==
    LET df == invocation.df
        malformed == {i \in DOMAIN df : df[i].Date = Malformed}
    IN (/\ pc = "returned"
        /\ invocation.op \in NormalizerOps
        /\ Cardinality(malformed) = 1
        /\ Len(df) > 1
        /\ \A i \in DOMAIN df, j \in DOMAIN df : i # j => df[i].Date # df[j].Date)
       => ~returned.raised

-----------------------------------------------------------------------------
(* Pipeline.run: the empty event alignment *)

\* C16: when no survey row matches a meeting date at any offset 1..7, the
\* event alignment signals an error and the run stops: fetch_focus_expectations
\* never completes with an empty anchor series, and no later stage of
\* Pipeline.run (the other fetches, merge_datasets, the deviation) is reached
\* with one.
C16_EmptyAlignmentAborts ==
    (\A D \in atas_data : Offsets(D, df_expected) = {})
        => pc \notin {"filtered", "fetched", "merged", "final"}

-----------------------------------------------------------------------------
(* Specification of merge_datasets called on its own with a list of two     *)
(* frames that are the same table A: either two equal frames, or the same   *)
(* object twice.  The loop of lines 160-161 rewrites the Date of each       *)
(* element in place; on the second visit of one object its Date holds       *)
(* periods already, for which .dt has no to_period.                         *)

RaiseAttributeError(message) ==
    [raised |-> TRUE, type |-> "AttributeError", message |-> message]

merge_datasets_call(list, same_object) ==
    IF same_object /\ Len(list) > 1
    THEN RaiseAttributeError("'PeriodProperties' object has no attribute 'to_period'")
    ELSE Return(merge_datasets(list))

\* tables of one value column, dated at the ends of the first months of year 0
MergeRows ==
    {("Date" :> MonthEnd([y |-> 0, m |-> mm]) @@ "selic_target" :> v) :
        mm \in 1 .. 3, v \in {360, 720}}

MergeFrames ==
    {[columns |-> <<"Date", "selic_target">>, rows |-> rs] : rs \in SeqsUpTo(MergeRows, MaxRows)}

InitMerge ==
    /\ pc = "call"
    /\ atas_data = {}
    /\ df_expected = <<>>
    /\ filtered_df = <<>>
    /\ dfs = <<>>
    /\ df_merged = NoFrame
    /\ df_final = NoFrame
    /\ EstimationIdle
    /\ \E A \in MergeFrames, same \in BOOLEAN :
          invocation = [op |-> "merge_datasets", dfs |-> <<A, A>>, same_object |-> same]
    /\ returned = NoCall

call_merge_datasets ==
    /\ invocation.op = "merge_datasets"
    /\ Called("merge_datasets",
              merge_datasets_call(invocation.dfs, invocation.same_object))

NextMerge == call_merge_datasets

SpecMerge == InitMerge /\ [][NextMerge]_vars

\* C17: merging a table A with itself returns A (with its month key): the
\* rows of A in their order, one Date column, every other column of A once
\* under its own name.
C17_MergeWithItself ==
    Returned("merge_datasets") =>
        /\ ~returned.raised
        /\ returned.df = DateToPeriod(invocation.dfs[1])

-----------------------------------------------------------------------------
(* Ownership of the frames across the stages of Pipeline.run *)

\* two frames written out alike: the same columns, the same values, and
\* Date keys of the same type (a timestamp and a period never read alike)
SameFrames(a, b) == ToString(a) = ToString(b)

\* C18: a stage leaves the frames passed to it as they were: merge_datasets
\* the frames of the list dfs, calculate_deviation_from_target the merged
\* Panel, and the estimation the final Panel.
C18_StagesLeaveInputsUnchanged ==
    [][/\ (pc = "fetched" /\ pc' = "merged") => SameFrames(dfs', dfs)
       /\ (pc = "merged" /\ pc' = "final") => SameFrames(df_merged', df_merged)
       /\ pc = "final" => SameFrames(df_final', df_final)]_vars

-----------------------------------------------------------------------------
(* main: Pipeline.run, run_estimation, run_analysis and run_visualization   *)
(* one after the other.  A fetch completes, or its loader or normalizer     *)
(* raises; the fit of the three models is numerical and left open: the      *)
(* analysis works on any coefficients of MainFits.                          *)

\* except Exception as e: raise PipelineError(...) from e in a stage, the
\* log-and-raise of Pipeline.run and the log-and-raise of main: the run ends,
\* whatever stage would have come next
Continue(stage, cause, next) ==
    [pc |-> next, error |-> [type |-> "PipelineError", cause |-> cause, stage |-> stage]]

Propagate(stage, cause, next) ==
    [pc |-> "failed", error |-> [type |-> "PipelineError", cause |-> cause, stage |-> stage]]

\* the exceptions a loader or a normalizer ends a fetch with
FetchErrors == {"FileNotFoundError", "ValueError"}

\* the list literal of Pipeline.run, lines 237-245
Fetches ==
    <<"fetch_focus_expectations", "fetch_bcb_expectations", "fetch_selic_rate",
      "fetch_exchange_rate", "fetch_output_gap", "fetch_inflation_target",
      "fetch_inflation">>

\* where the run is once entry k of the list has been evaluated
AfterFetch(k) == IF k = Len(Fetches) THEN "fetched" ELSE "fetching"

\* entry k of the list: the fetch returns one of frames or raises; dfs holds
\* the frames of the fetches that have returned so far
Fetch(k, frames) ==
    /\ pc = (IF k = 1 THEN "start" ELSE "fetching")
    /\ Len(dfs) = k - 1
    /\ \/ /\ \E frame \in frames : dfs' = Append(dfs, frame)
          /\ pc' = AfterFetch(k)
          /\ UNCHANGED error
       \/ /\ \E cause \in FetchErrors :
                LET out == Propagate(Fetches[k], cause, AfterFetch(k))
                IN /\ pc' = out.pc
                   /\ error' = out.error
          /\ UNCHANGED dfs
    /\ UNCHANGED <<atas_data, df_expected, df_merged, df_final, config, estimator,
                   results, analysis_summaries, callVars>>

run_fetch_focus_expectations ==
    /\ Fetch(1, {[columns |-> <<"Date", "focus_expected_inflation">>,
                  rows |-> filter_expected_inflation_dates(atas_data, df_expected)]})
    /\ filtered_df' = IF pc' = "failed" THEN filtered_df
                      ELSE filter_expected_inflation_dates(atas_data, df_expected)

run_fetch_bcb_expectations ==
    /\ Fetch(2, {SeriesFrame(2, "bcb_expected_inflation", RunMonths, "MS")})
    /\ UNCHANGED filtered_df

run_fetch_selic_rate ==
    /\ Fetch(3, {SeriesFrame(3, "selic_target", RunMonths, "ME")})
    /\ UNCHANGED filtered_df

run_fetch_exchange_rate ==
    /\ Fetch(4, {SeriesFrame(4, "exchange_rate_var", RunMonths, "ME")})
    /\ UNCHANGED filtered_df

run_fetch_output_gap ==
    /\ Fetch(5, MonthlyGapFrames)
    /\ UNCHANGED filtered_df

run_fetch_inflation_target ==
    /\ Fetch(6, {SeriesFrame(6, "inflation_target", cover, "MS") : cover \in Intervals})
    /\ UNCHANGED filtered_df

run_fetch_inflation ==
    /\ Fetch(7, {SeriesFrame(7, "inflation_12m", RunMonths, "MS")})
    /\ UNCHANGED filtered_df

\* the coefficients the analysis is run on
MainFits ==
    {rl \in ResLists :
        /\ rl[Len(rl)].params["selic_target_lag"] \in {Float(1, 2), Float(1, 1)}
        /\ rl[Len(rl)].params["inf_dev"] = Float(3, 10)
        /\ rl[Len(rl)].params["output_gap_lag"] = Float(1, 2)
        /\ rl[Len(rl)].params["exchange_rate_var_lag"] = Float(-3, 10)}

\* line 20 of main: run_analysis(res) on the fitted results of every key
main_run_analysis ==
    /\ pc = "estimated"
    /\ \E fits \in MainFits :
          analysis_summaries' =
              [key \in DOMAIN results |-> summarize_results(fits[Len(fits)])]
    /\ pc' = "analyzed"
    /\ UNCHANGED <<atas_data, df_expected, filtered_df, runVars, config, estimator,
                   results, error, callVars>>

\* line 22 of main: the plots are drawn, or drawing or saving them raises
run_visualization ==
    /\ pc = "analyzed"
    /\ \/ /\ pc' = "done"
          /\ UNCHANGED error
       \/ LET out == Propagate("run_visualization", "Exception", "done")
          IN /\ pc' = out.pc
             /\ error' = out.error
    /\ UNCHANGED <<atas_data, df_expected, filtered_df, runVars, config, estimator,
                   results, analysis_summaries, callVars>>

\* the configurations of main: no year range, or one window
MainConfigs ==
    [lag : {1}, year_ranges : {<<>>, <<YearRange(0, LastYear)>>, <<YearRange(LastYear, LastYear)>>}]

InitMain ==
    /\ pc = "start"
    /\ atas_data = MeetingDates
    /\ df_expected \in MonthlySurveys
    /\ filtered_df = <<>>
    /\ dfs = <<>>
    /\ df_merged = NoFrame
    /\ df_final = NoFrame
    /\ config \in MainConfigs
    /\ estimator = <<>>
    /\ results = <<>>
    /\ analysis_summaries = <<>>
    /\ error = NoError
    /\ CallIdle

NextMain ==
    \/ run_fetch_focus_expectations
    \/ run_fetch_bcb_expectations
    \/ run_fetch_selic_rate
    \/ run_fetch_exchange_rate
    \/ run_fetch_output_gap
    \/ run_fetch_inflation_target
    \/ run_fetch_inflation
    \/ merge
    \/ deviation
    \/ run_estimation
    \/ main_run_analysis
    \/ run_visualization

SpecMain == InitMain /\ [][NextMain]_vars

\* the value column of the frame each fetch returns, in the order of the list
FetchColumns ==
    <<"focus_expected_inflation", "bcb_expected_inflation", "selic_target",
      "exchange_rate_var", "output_gap", "inflation_target", "inflation_12m">>

\* C21: the stages of main run in strict sequence: the seven fetches in the
\* order of the list, all of them before merge_datasets, merge before
\* calculate_deviation_from_target, that before the estimation, the
\* estimation before the analysis; once a stage has raised, the error is
\* kept and no stage runs.
C21_StagesInStrictSequence ==
    [][/\ error.type = "none"
       /\ pc # "failed"
       /\ (pc' = "failed") <=> (error'.type # "none")
       /\ Len(dfs') # Len(dfs) =>
             /\ Len(dfs') = Len(dfs) + 1
             /\ dfs'[Len(dfs')].columns[2] = FetchColumns[Len(dfs')]
             /\ df_merged = NoFrame
       /\ df_merged' # df_merged =>
             /\ Len(dfs) = Len(Fetches)
             /\ df_final = NoFrame
       /\ df_final' # df_final =>
             /\ df_merged # NoFrame
             /\ DOMAIN results = {}
       /\ (DOMAIN results' # DOMAIN results \/ (pc = "final" /\ pc' = "failed")) =>
             /\ df_final # NoFrame
             /\ DOMAIN analysis_summaries = {}
       /\ DOMAIN analysis_summaries' # DOMAIN analysis_summaries =>
             /\ DOMAIN results # {}
             /\ pc' # "done"
       /\ pc' = "done" => DOMAIN analysis_summaries # {}]_vars

\* the seven fetches, the merge and the deviations have completed, the
\* estimation has raised on a window without rows, and no analysis was run
C21_Witness ==
    /\ pc = "failed"
    /\ error.type = "PipelineError"
    /\ error.cause = "ValueError"
    /\ Len(dfs) = Len(Fetches)
    /\ df_merged # NoFrame
    /\ df_final # NoFrame
    /\ Len(df_final.rows) > 0
    /\ config.year_ranges # <<>>
    /\ DOMAIN results = {}
    /\ DOMAIN analysis_summaries = {}

-----------------------------------------------------------------------------
(* Specification of one TaylorRuleEstimator instance on which estimate_*    *)
(* is called several times: estimator is the instance, results the list of  *)
(* what its calls returned, in the order of the calls.                      *)

MaxCalls == 2

\* the calls made on the instance: estimate_naive, or estimate_range with a
\* window that starts in the first or the second year
InstanceCalls ==
    {[op |-> "estimate_naive", year_range |-> None]}
    \cup {[op |-> "estimate_range", year_range |-> <<a, LastYear>>] : a \in {0, 1}}
    \cup {[op |-> "estimate_range", year_range |-> <<0, 0>>]}

\* a call of estimate_naive or estimate_range on an estimator, and the fit
CallOn(est, c) ==
    IF c.op = "estimate_naive" THEN fit_models(estimate_naive(est))
    ELSE fit_models(estimate_range(est, c.year_range))

InitInstance ==
    /\ pc = "instance"
    /\ atas_data = {}
    /\ df_expected = <<>>
    /\ filtered_df = <<>>
    /\ dfs = <<>>
    /\ df_merged = NoFrame
    /\ df_final \in EstPanels
    /\ config \in [lag : Lags, year_ranges : {<<>>}]
    /\ \E source \in Range(Sources) :
          estimator = NewEstimator(df_final, source, config.lag)
    /\ results = <<>>
    /\ analysis_summaries = <<>>
    /\ error = NoError
    /\ CallIdle

\* one more call on the instance: self.data is what the calls before left
CallInstance(c) ==
    /\ pc = "instance"
    /\ Len(results) < MaxCalls
    /\ \E out \in {CallOn(estimator, c)} :
          /\ estimator' = out.est
          /\ results' = Append(results, [raised |-> out.raised, frame |-> out.frame] @@ c)
    /\ UNCHANGED <<pc, atas_data, df_expected, filtered_df, runVars, config,
                   analysis_summaries, error, callVars>>

call_estimate_naive ==
    \E c \in InstanceCalls : c.op = "estimate_naive" /\ CallInstance(c)

call_estimate_range ==
    \E c \in InstanceCalls : c.op = "estimate_range" /\ CallInstance(c)

NextInstance ==
    \/ call_estimate_naive
    \/ call_estimate_range

SpecInstance == InitInstance /\ [][NextInstance]_vars

\* C22: the rows a call hands to the models are those the same call hands to
\* them as the first call on a fresh instance over the same Panel, however
\* many calls were made on the instance before.
C22_CallsDoNotAccumulate ==
    pc = "instance" =>
        \A i \in 1 .. Len(results) :
            LET fresh == CallOn(NewEstimator(df_final, estimator.source, estimator.lag),
                                results[i])
            IN /\ results[i].raised = fresh.raised
               /\ Labels(results[i].frame) = Labels(fresh.frame)

====
